---- MODULE Spec2Model ----
(***************************************************************************)
(* Model of mediaweb (src/mediaweb.go): an HTTP handler that serves a      *)
(* directory tree as listings, player pages and raw downloads.             *)
(*                                                                         *)
(* Strings are sequences of one-character strings, so that the string      *)
(* operations of the code (filepath.HasPrefix, filepath.Clean, ...) are    *)
(* computed character by character, as the Go library computes them.       *)
(***************************************************************************)
EXTENDS Naturals, Sequences, FiniteSets

\* ------------------------------------------------------------------------
\* Bounds of the model.

\* Largest number of path segments of a request path.
MaxSegs == 3

\* Number of requests served at the same time under SpecConc.
NumConc == 2

\* ------------------------------------------------------------------------
\* String literals.

Sep == "/"

s_empty == <<>>
s_slash == <<"/">>
s_dot == <<".">>
s_dotdot == <<".", ".">>
s_srv == <<"s", "r", "v">>
s_media == <<"m", "e", "d", "i", "a">>
s_media2 == <<"m", "e", "d", "i", "a", "2">>
s_movies == <<"m", "o", "v", "i", "e", "s">>
s_clip == <<"c", "l", "i", "p", ".", "m", "p", "4">>
s_x == <<"x">>
s_download == <<"_", "d", "o", "w", "n", "l", "o", "a", "d">>
s_download_mp4 == <<"_", "d", "o", "w", "n", "l", "o", "a", "d", ".", "m", "p", "4">>

\* const downloadPrefix = "/_download"
downloadPrefix == <<"/", "_", "d", "o", "w", "n", "l", "o", "a", "d">>

\* ------------------------------------------------------------------------
\* path/filepath and strings, on Unix.

\* strings.HasPrefix, which is what filepath.HasPrefix is on Unix: a plain
\* comparison of the leading characters, blind to path segment boundaries.
HasPrefix(p, prefix) ==
    /\ Len(p) >= Len(prefix)
    /\ SubSeq(p, 1, Len(prefix)) = prefix

IsAbs(p) == Len(p) > 0 /\ p[1] = Sep

\* The segments of p between separators, empty ones dropped.
RECURSIVE SplitFrom(_, _, _)
SplitFrom(p, i, cur) ==
    IF i > Len(p)
    THEN IF cur = <<>> THEN <<>> ELSE <<cur>>
    ELSE IF p[i] = Sep
         THEN (IF cur = <<>> THEN <<>> ELSE <<cur>>) \o SplitFrom(p, i + 1, <<>>)
         ELSE SplitFrom(p, i + 1, Append(cur, p[i]))

Split(p) == SplitFrom(p, 1, <<>>)

\* The segments joined by separators.
RECURSIVE JoinSegs(_)
JoinSegs(segs) ==
    IF segs = <<>> THEN <<>>
    ELSE IF Len(segs) = 1 THEN segs[1]
    ELSE segs[1] \o <<Sep>> \o JoinSegs(Tail(segs))

\* The loop of filepath.Clean over the segments: "." is dropped, ".." removes
\* the segment before it, is dropped at the root of a rooted path, and is kept
\* at the start of a relative one.
RECURSIVE CleanSegs(_, _, _)
CleanSegs(segs, out, rooted) ==
    IF segs = <<>> THEN out
    ELSE LET s == Head(segs)
             rest == Tail(segs)
         IN  IF s = s_dot THEN CleanSegs(rest, out, rooted)
             ELSE IF s = s_dotdot
             THEN IF out # <<>> /\ out[Len(out)] # s_dotdot
                  THEN CleanSegs(rest, SubSeq(out, 1, Len(out) - 1), rooted)
                  ELSE IF rooted
                       THEN CleanSegs(rest, out, rooted)
                       ELSE CleanSegs(rest, Append(out, s), rooted)
             ELSE CleanSegs(rest, Append(out, s), rooted)

\* filepath.Clean
Clean(p) ==
    IF p = <<>> THEN s_dot
    ELSE LET rooted == IsAbs(p)
             out == JoinSegs(CleanSegs(Split(p), <<>>, rooted))
         IN  IF rooted THEN <<Sep>> \o out
             ELSE IF out = <<>> THEN s_dot ELSE out

\* filepath.Join of two elements: empty elements are ignored, the rest is
\* joined by a separator and cleaned.
Join(a, b) ==
    IF a = <<>> /\ b = <<>> THEN <<>>
    ELSE IF a = <<>> THEN Clean(b)
    ELSE IF b = <<>> THEN Clean(a)
    ELSE Clean(a \o <<Sep>> \o b)

\* The working directory of the process (os.Getwd), used by filepath.Abs for
\* a relative path only.
wd == <<Sep>> \o s_srv

\* filepath.Abs; it never fails on Unix once the working directory is known.
Abs(p) == IF IsAbs(p) THEN Clean(p) ELSE Join(wd, p)

\* Length of the common leading run of two segment sequences.
RECURSIVE CommonLen(_, _)
CommonLen(a, b) ==
    IF a = <<>> \/ b = <<>> \/ Head(a) # Head(b) THEN 0
    ELSE 1 + CommonLen(Tail(a), Tail(b))

\* filepath.Rel: [ok, path].  Both paths are cleaned; a rooted path has no
\* relative form against an unrooted one; otherwise one ".." per segment of
\* the base left after the common part, then what is left of the target.
Rel(basepath, targpath) ==
    LET base == Clean(basepath)
        targ == Clean(targpath)
        bs == IF base = s_dot THEN <<>> ELSE Split(base)
        ts == IF targ = s_dot THEN <<>> ELSE Split(targ)
        c == CommonLen(bs, ts)
        ups == [i \in 1..(Len(bs) - c) |-> s_dotdot]
        downs == SubSeq(ts, c + 1, Len(ts))
    IN  IF targ = base THEN [ok |-> TRUE, path |-> s_dot]
        ELSE IF IsAbs(base) # IsAbs(targ) THEN [ok |-> FALSE, path |-> <<>>]
        ELSE IF c < Len(bs) /\ bs[c + 1] = s_dotdot THEN [ok |-> FALSE, path |-> <<>>]
        ELSE [ok |-> TRUE, path |-> JoinSegs(ups \o downs)]

\* ------------------------------------------------------------------------
\* gopkg.in/h2non/filetype.v1, as the handlers use it.

\* types.Unknown
Unknown == [MIME |-> [Type |-> "", Subtype |-> "", Value |-> ""], Extension |-> "unknown"]

\* filetype.Match: the type is decided by the leading bytes of the content
\* alone (one signature byte stands for each magic number).
Match(buf) ==
    IF buf = <<>> THEN Unknown
    ELSE IF buf[1] = 0
    THEN [MIME |-> [Type |-> "video", Subtype |-> "mp4", Value |-> "video/mp4"], Extension |-> "mp4"]
    ELSE IF buf[1] = 26
    THEN [MIME |-> [Type |-> "video", Subtype |-> "webm", Value |-> "video/webm"], Extension |-> "webm"]
    ELSE IF buf[1] = 137
    THEN [MIME |-> [Type |-> "image", Subtype |-> "png", Value |-> "image/png"], Extension |-> "png"]
    ELSE Unknown

\* ------------------------------------------------------------------------
\* The filesystem the server reads.  It is never written.

P1(a) == <<Sep>> \o a
P2(a, b) == <<Sep>> \o a \o <<Sep>> \o b
P3(a, b, c) == <<Sep>> \o a \o <<Sep>> \o b \o <<Sep>> \o c
P4(a, b, c, d) == <<Sep>> \o a \o <<Sep>> \o b \o <<Sep>> \o c \o <<Sep>> \o d

\* A node: its path, the directory it is in and its name there.
Directory(parent, name, path) ==
    [path |-> path, parent |-> parent, name |-> name, isDir |-> TRUE,
     readable |-> TRUE, content |-> <<>>]
RegularFile(parent, name, path, readable, content) ==
    [path |-> path, parent |-> parent, name |-> name, isDir |-> FALSE,
     readable |-> readable, content |-> content]

\* /srv/media holds a directory, a video, a text file and a video whose name
\* starts like the download prefix; /srv/media/movies a video and an
\* unreadable file; /srv/media2, beside the root, an image.
FileSystem ==
    { Directory(<<>>, <<>>, s_slash),
      Directory(s_slash, s_srv, P1(s_srv)),
      Directory(P1(s_srv), s_media, P2(s_srv, s_media)),
      Directory(P1(s_srv), s_media2, P2(s_srv, s_media2)),
      RegularFile(P2(s_srv, s_media2), s_x, P3(s_srv, s_media2, s_x), TRUE, <<137, 80, 9>>),
      Directory(P2(s_srv, s_media), s_movies, P3(s_srv, s_media, s_movies)),
      RegularFile(P2(s_srv, s_media), s_clip, P3(s_srv, s_media, s_clip), TRUE, <<0, 0, 1>>),
      RegularFile(P2(s_srv, s_media), s_x, P3(s_srv, s_media, s_x), TRUE, <<104, 105>>),
      RegularFile(P2(s_srv, s_media), s_download_mp4, P3(s_srv, s_media, s_download_mp4),
                  TRUE, <<0, 0, 2>>),
      RegularFile(P3(s_srv, s_media, s_movies), s_clip, P4(s_srv, s_media, s_movies, s_clip),
                  TRUE, <<26, 69, 3>>),
      RegularFile(P3(s_srv, s_media, s_movies), s_x, P4(s_srv, s_media, s_movies, s_x),
                  FALSE, <<0, 0, 4>>) }

Exists(path) == \E n \in FileSystem : n.path = path

Node(path) == CHOOSE n \in FileSystem : n.path = path

Children(path) == {n \in FileSystem : n.parent = path}

\* os.Open for reading: fails on a missing or unreadable path.
CanOpen(path) == Exists(path) /\ Node(path).readable

\* filetype.MatchFile: opens the file, reads its head, closes it, matches.
\* [ok, type]; reading a directory is an I/O error.
MatchFile(path) ==
    IF CanOpen(path) /\ ~Node(path).isDir
    THEN [ok |-> TRUE, type |-> Match(Node(path).content)]
    ELSE [ok |-> FALSE, type |-> Unknown]

\* The served roots tried (flag -dir).
Roots == {P2(s_srv, s_media), P1(s_srv)}

\* ------------------------------------------------------------------------
\* Requests.

\* Names a request path is built from.
SegNames ==
    {s_empty, s_dot, s_dotdot, s_download, s_download_mp4, s_media, s_media2, s_movies,
     s_clip, s_x}

\* r.URL.Path of a request: "/" followed by up to n names (the empty name
\* gives a doubled or trailing separator).  The server receives it as sent:
\* no ServeMux cleans it.
PathsUpTo(n) ==
    {<<Sep>> \o JoinSegs(segs) : segs \in UNION {[1..k -> SegNames] : k \in 0..n}}

RequestPaths == PathsUpTo(MaxSegs)

\* Request paths of the concurrent specification: one per way a request ends.
ConcPaths ==
    {P1(s_movies), P1(s_media2), P1(s_clip), P2(s_dotdot, s_x), P2(s_download, s_clip)}

NoHeader == <<>>

\* A response of which nothing is written yet.  A header is the list of its
\* values (http.Header), status 0 means the status line is not yet written.
NoResponse ==
    [status |-> 0, handler |-> NoHeader, contentType |-> NoHeader,
     mediawebType |-> NoHeader, body |-> <<>>]

\* The link a request came from: none, the entry of a listing ("li") or the
\* source of a player page ("source"); from is the directory listed or the
\* file of the page, object what the link stood for, type the page's type.
NoLink == [kind |-> "none", from |-> <<>>, object |-> <<>>, type |-> ""]

Idle ==
    [pc |-> "idle", path |-> <<>>, realPath |-> <<>>, open |-> {}, deferred |-> {},
     infos |-> <<>>, entries |-> <<>>, type |-> Unknown, ops |-> <<>>,
     via |-> NoLink, resp |-> NoResponse]

\* Mutant of AddHandler: the header is never added.
AddHandler_Dropped(resp, v) == resp

\* w.Header().Add(key, value), of no effect once the header is written.
AddHandler(resp, v) ==
    IF resp.status = 0 THEN [resp EXCEPT !.handler = Append(@, v)] ELSE resp
AddContentType(resp, v) ==
    IF resp.status = 0 THEN [resp EXCEPT !.contentType = Append(@, v)] ELSE resp
AddMediawebType(resp, v) ==
    IF resp.status = 0 THEN [resp EXCEPT !.mediawebType = Append(@, v)] ELSE resp

\* w.Write: the first write sends status 200 and the headers.
Write(resp, item) ==
    [resp EXCEPT !.status = IF @ = 0 THEN 200 ELSE @, !.body = Append(@, item)]

ErrorItem(msg) == [kind |-> "error", text |-> msg]

\* http.Error: sets the plain-text content type and the status, unless the
\* header is already written, and writes the message.
HttpError(resp, msg, code) ==
    IF resp.status = 0
    THEN [resp EXCEPT !.status = code,
                      !.contentType = <<"text/plain; charset=utf-8">>,
                      !.body = Append(@, ErrorItem(msg))]
    ELSE [resp EXCEPT !.body = Append(@, ErrorItem(msg))]

\* A filesystem operation of a request, logged.
FsOp(r, op, path) == [r EXCEPT !.ops = Append(@, [op |-> op, path |-> path])]

\* The handler function returns: the deferred f.Close() calls run and the
\* server completes the response (status 200 when nothing was written).
Return(r) ==
    [r EXCEPT !.pc = "done", !.open = r.open \ r.deferred, !.deferred = {},
              !.resp.status = IF @ = 0 THEN 200 ELSE @]

\* Mutant of OpenDeferClose: the close is not deferred.
OpenDeferClose_NoDefer(r, path) == [r EXCEPT !.open = @ \cup {path}]

\* f, err := os.Open(path) succeeded, followed by defer f.Close().
OpenDeferClose(r, path) ==
    [r EXCEPT !.open = @ \cup {path}, !.deferred = @ \cup {path}]

\* if !filepath.HasPrefix(realPath, dir)
Outside(realPath, root) == ~HasPrefix(realPath, root)

\* Mutant of Reject: the target is opened before the check rejects it.
Reject_AfterOpen(r, realPath) ==
    Return([FsOp(r, "open", realPath) EXCEPT
               !.realPath = realPath,
               !.resp = HttpError(@, "outside allowed path", 400)])

\* http.Error(w, "outside allowed path", 400); return
Reject(r, realPath) ==
    Return([r EXCEPT !.realPath = realPath,
                     !.resp = HttpError(@, "outside allowed path", 400)])

\* if filepath.HasPrefix(r.URL.Path, "/_download")
IsDownload(urlPath) == HasPrefix(urlPath, downloadPrefix)

\* realPath of the page route: filepath.Abs(filepath.Join(dir, r.URL.Path))
PageRealPath(root, urlPath) == Abs(Join(root, urlPath))

\* Mutant of DownloadRealPath: the download prefix is not taken off.
DownloadRealPath_NoStrip(root, urlPath) == [ok |-> TRUE, path |-> Abs(Join(root, urlPath))]

\* realPath of the download route: filepath.Rel(downloadPrefix, r.URL.Path),
\* then filepath.Abs(filepath.Join(dir, realPath)).  [ok, path]
DownloadRealPath(root, urlPath) ==
    LET rel == Rel(downloadPrefix, urlPath)
    IN  IF rel.ok THEN [ok |-> TRUE, path |-> Abs(Join(root, rel.path))]
        ELSE [ok |-> FALSE, path |-> <<>>]

VARIABLES dir, reqs
vars == <<dir, reqs>>

Slots == DOMAIN reqs
Others(i) == Slots \ {i}

Init ==
    /\ dir \in Roots
    /\ reqs = [i \in {1} |-> Idle]

InitConc ==
    /\ dir \in Roots
    /\ reqs = [i \in 1..NumConc |-> Idle]

Set(i, r) == reqs' = [reqs EXCEPT ![i] = r] /\ UNCHANGED dir

\* A request arrives while no other is being served.
Start(i) ==
    /\ reqs[i].pc = "idle"
    /\ \A j \in Others(i) : reqs[j].pc = "idle"
    /\ \E p \in RequestPaths : Set(i, [Idle EXCEPT !.pc = "route", !.path = p])

\* A request arrives, whatever the other requests are doing.
StartConc(i) ==
    /\ reqs[i].pc = "idle"
    /\ \E p \in ConcPaths : Set(i, [Idle EXCEPT !.pc = "route", !.path = p])

\* handlerFunc, up to the first filesystem operation: a path without the
\* download prefix is resolved and confined.
handlerFunc(i) ==
    LET r == reqs[i]
        realPath == PageRealPath(dir, r.path)
    IN  /\ r.pc = "route"
        /\ ~IsDownload(r.path)
        /\ IF Outside(realPath, dir)
           THEN Set(i, Reject(r, realPath))
           ELSE Set(i, [r EXCEPT !.pc = "open", !.realPath = realPath])

\* handlerFunc: f, err := os.Open(realPath); defer f.Close()
Open(i) ==
    LET r == FsOp(reqs[i], "open", reqs[i].realPath)
    IN  /\ r.pc = "open"
        /\ IF CanOpen(r.realPath)
           THEN Set(i, [OpenDeferClose(r, r.realPath) EXCEPT !.pc = "stat"])
           ELSE Set(i, Return([r EXCEPT !.resp = HttpError(@, "open failed", 400)]))

\* handlerFunc: info, err := f.Stat(), then the dispatch on info.IsDir() and
\* the first line of handleDir or handleFile.
Stat(i) ==
    LET r == FsOp(reqs[i], "stat", reqs[i].realPath)
    IN  /\ r.pc = "stat"
        /\ \E ok \in BOOLEAN :
              IF ~ok
              THEN Set(i, Return([r EXCEPT !.resp = HttpError(@, "stat failed", 500)]))
              ELSE IF Node(r.realPath).isDir
              THEN Set(i, [r EXCEPT !.pc = "readdir", !.resp = AddHandler(@, "dir")])
              ELSE Set(i, [r EXCEPT !.pc = "match", !.resp = AddHandler(@, "file")])

\* The orders in which Readdir may return the children of a directory: the
\* filesystem's own order, any of them.
Orders(S) ==
    {f \in [1..Cardinality(S) -> S] : \A x \in S : \E k \in DOMAIN f : f[k] = x}

\* os.FileInfo of a directory child: Name() and IsDir().
FileInfo(n) == [name |-> n.name, isDir |-> n.isDir]

\* handleDir: infos, err := dir.Readdir(-1)
Readdir(i) ==
    LET r == FsOp(reqs[i], "readdir", reqs[i].realPath)
    IN  /\ r.pc = "readdir"
        /\ \/ Set(i, Return([r EXCEPT !.resp = HttpError(@, "readdir failed", 500)]))
           \/ \E order \in Orders(Children(r.realPath)) :
                 Set(i, [r EXCEPT !.infos = [k \in DOMAIN order |-> FileInfo(order[k])],
                                  !.pc = IF order = <<>> THEN "render" ELSE "classify"])

\* Mutant of BuildLink: every known type is linked, not video alone.
BuildLink_AnyKnown(fileType) == fileType.MIME.Type # ""

\* BuildLink of a child that is not a directory.
BuildLink(fileType) == fileType.MIME.Type = "video"

\* dirEntry of a directory child.
DirEntryOfDir(info) == [BuildLink |-> TRUE, Name |-> info.name, Type |-> "directory"]

\* dirEntry of a classified file child.
DirEntryOfFile(info, fileType) ==
    [BuildLink |-> BuildLink(fileType), Name |-> info.name, Type |-> fileType.Extension]

\* One <li> of dirTemplate: a link when BuildLink, plain text otherwise, both
\* showing {{join $parent .Name}}.
ListItem(parent, e) ==
    [kind |-> "li", link |-> e.BuildLink, href |-> Join(parent, e.Name), name |-> e.Name]

\* What dirTemplate writes: the title, then the entries in order.
DirPage(title, parent, entries) ==
    <<[kind |-> "title", text |-> title]>>
        \o [k \in DOMAIN entries |-> ListItem(parent, entries[k])]

\* The first n items written, one after the other.
RECURSIVE WriteAll(_, _, _)
WriteAll(resp, items, n) ==
    IF n = 0 THEN resp
    ELSE Write(WriteAll(resp, items, n - 1), items[n])

\* A write to the connection failed: the status line counts as written.
Broken(resp) == [resp EXCEPT !.status = IF @ = 0 THEN 200 ELSE @]

\* template.Execute(w, ...): all the items, or the items before a failed
\* write followed by http.Error(w, err.Error(), 500).
Execute(resp, items, n) ==
    IF n = Len(items) THEN WriteAll(resp, items, n)
    ELSE HttpError(Broken(WriteAll(resp, items, n)), "write failed", 500)

\* Mutant of ClassifyFailed: the entries classified so far are written before
\* the error.
ClassifyFailed_Partial(r) ==
    Return([r EXCEPT !.resp =
        HttpError(WriteAll(@, DirPage(r.realPath, Join(s_slash, r.path), r.entries),
                           1 + Len(r.entries)),
                  "match failed", 500)])

\* handleDir, a child that cannot be classified:
\* http.Error(w, err.Error(), 500); return
ClassifyFailed(r) == Return([r EXCEPT !.resp = HttpError(@, "match failed", 500)])

\* handleDir: one iteration of the loop over infos.
Classify(i) ==
    LET r0 == reqs[i]
        info == Head(r0.infos)
        childPath == Join(r0.realPath, info.name)
        rest == Tail(r0.infos)
        nextPc == IF rest = <<>> THEN "render" ELSE "classify"
    IN  /\ r0.pc = "classify"
        /\ IF info.isDir
           THEN Set(i, [r0 EXCEPT !.entries = Append(@, DirEntryOfDir(info)),
                                  !.infos = rest, !.pc = nextPc])
           ELSE LET r == FsOp(r0, "match", childPath)
                    m == MatchFile(childPath)
                IN  IF ~m.ok
                    THEN Set(i, ClassifyFailed(r))
                    ELSE Set(i, [r EXCEPT !.entries = Append(@, DirEntryOfFile(info, m.type)),
                                          !.infos = rest, !.pc = nextPc])

\* handleDir: dirTemplate.Execute with title dir.Name(), the entries and
\* parent filepath.Join("/", r.URL.Path).
RenderDir(i) ==
    LET r == reqs[i]
        page == DirPage(r.realPath, Join(s_slash, r.path), r.entries)
    IN  /\ r.pc = "render"
        /\ \E n \in 0..Len(page) :
              Set(i, Return([r EXCEPT !.resp = Execute(@, page, n)]))

\* Mutant of SourceItem: the request path is appended as it came, uncleaned.
SourceItem_RawPath(urlPath, fileType) ==
    [kind |-> "source", src |-> downloadPrefix \o urlPath, type |-> fileType.MIME.Value]

\* The <source> of fileTemplate: src {{join .downloadPrefix .name}} with name
\* filepath.Join("/", r.URL.Path), and type {{.type}}.
SourceItem(urlPath, fileType) ==
    [kind |-> "source", src |-> Join(downloadPrefix, Join(s_slash, urlPath)),
     type |-> fileType.MIME.Value]

\* handleFile, after its first line: filetype.MatchFile(f.Name()), the
\* X-Mediaweb-Type header and fileTemplate.Execute.
handleFile(i) ==
    LET r == FsOp(reqs[i], "match", reqs[i].realPath)
        m == MatchFile(r.realPath)
        page == <<SourceItem(r.path, m.type)>>
    IN  /\ r.pc = "match"
        /\ IF ~m.ok
           THEN Set(i, Return([r EXCEPT !.resp = HttpError(@, "match failed", 500)]))
           ELSE \E n \in 0..Len(page) :
                   Set(i, Return([r EXCEPT !.type = m.type,
                                           !.resp = Execute(AddMediawebType(@, m.type), page, n)]))

\* handleDownload, up to the first filesystem operation: the handler header,
\* the path behind the download prefix, resolved and confined.
handleDownload(i) ==
    LET r == [reqs[i] EXCEPT !.resp = AddHandler(@, "download")]
        rp == DownloadRealPath(dir, r.path)
    IN  /\ r.pc = "route"
        /\ IsDownload(r.path)
        /\ IF ~rp.ok
           THEN Set(i, Return([r EXCEPT !.resp = HttpError(@, "Rel failed", 400)]))
           ELSE IF Outside(rp.path, dir)
           THEN Set(i, Reject(r, rp.path))
           ELSE Set(i, [r EXCEPT !.pc = "dl_match", !.realPath = rp.path])

\* handleDownload: filetype.MatchFile(realPath) and the Content-Type header.
DownloadMatch(i) ==
    LET r == FsOp(reqs[i], "match", reqs[i].realPath)
        m == MatchFile(r.realPath)
    IN  /\ r.pc = "dl_match"
        /\ IF ~m.ok
           THEN Set(i, Return([r EXCEPT !.resp = HttpError(@, "match failed", 500)]))
           ELSE Set(i, [r EXCEPT !.pc = "dl_open", !.type = m.type,
                                 !.resp = AddContentType(@, m.type.MIME.Value)])

\* handleDownload: f, err := os.Open(realPath); defer f.Close()
DownloadOpen(i) ==
    LET r == FsOp(reqs[i], "open", reqs[i].realPath)
    IN  /\ r.pc = "dl_open"
        /\ IF CanOpen(r.realPath)
           THEN Set(i, [OpenDeferClose(r, r.realPath) EXCEPT !.pc = "copy"])
           ELSE Set(i, Return([r EXCEPT !.resp = HttpError(@, "open failed", 500)]))

\* What io.Copy has written after n bytes of the content.
Copied(resp, content, n) ==
    IF n = 0 THEN resp
    ELSE Write(resp, [kind |-> "data", bytes |-> SubSeq(content, 1, n)])

\* handleDownload: io.Copy(w, f), to the end of the file or to a failed write
\* followed by http.Error(w, err.Error(), 500).
Copy(i) ==
    LET r == FsOp(reqs[i], "read", reqs[i].realPath)
        content == Node(r.realPath).content
    IN  /\ r.pc = "copy"
        /\ \E n \in 0..Len(content) :
              IF n = Len(content)
              THEN Set(i, Return([r EXCEPT !.resp = Copied(@, content, n)]))
              ELSE Set(i, Return([r EXCEPT
                      !.resp = HttpError(Broken(Copied(@, content, n)), "write failed", 500)]))

\* The response is delivered and the request is over.
Finish(i) ==
    /\ reqs[i].pc = "done"
    /\ Set(i, Idle)

\* The links of a response: the href of each linked entry of a listing with
\* the child it stands for, and the src of a player page with its file.
Links(r) ==
    {[href |-> r.resp.body[k].href,
      via |-> [kind |-> "li", from |-> r.realPath,
               object |-> Join(r.realPath, r.resp.body[k].name), type |-> ""]] :
        k \in {k \in DOMAIN r.resp.body :
                 r.resp.body[k].kind = "li" /\ r.resp.body[k].link}}
    \cup
    {[href |-> r.resp.body[k].src,
      via |-> [kind |-> "source", from |-> r.realPath,
               object |-> r.realPath, type |-> r.resp.body[k].type]] :
        k \in {k \in DOMAIN r.resp.body : r.resp.body[k].kind = "source"}}

\* The client follows a link of the response: a new request for it.
FollowLink(i) ==
    /\ reqs[i].pc = "done"
    /\ \E l \in Links(reqs[i]) :
          Set(i, [Idle EXCEPT !.pc = "route", !.path = l.href, !.via = l.via])

Next ==
    \E i \in {1} :
        \/ Start(i)
        \/ handlerFunc(i)
        \/ Open(i)
        \/ Stat(i)
        \/ Readdir(i)
        \/ Classify(i)
        \/ RenderDir(i)
        \/ handleFile(i)
        \/ handleDownload(i)
        \/ DownloadMatch(i)
        \/ DownloadOpen(i)
        \/ Copy(i)
        \/ Finish(i)
        \/ FollowLink(i)

NextConc ==
    \E i \in 1..NumConc :
        \/ StartConc(i)
        \/ handlerFunc(i)
        \/ Open(i)
        \/ Stat(i)
        \/ Readdir(i)
        \/ Classify(i)
        \/ RenderDir(i)
        \/ handleFile(i)
        \/ handleDownload(i)
        \/ DownloadMatch(i)
        \/ DownloadOpen(i)
        \/ Copy(i)
        \/ Finish(i)
        \/ FollowLink(i)

\* One request at a time, over every request path of the bound.
Spec == Init /\ [][Next]_vars

\* NumConc requests at a time, interleaved at every filesystem operation.
SpecConc == InitConc /\ [][NextConc]_vars

\* ------------------------------------------------------------------------
\* The claims.

Requests == {reqs[i] : i \in DOMAIN reqs}
Done == {r \in Requests : r.pc = "done"}

\* p is root or a path below root, by path segments.
Descendant(root, p) ==
    \/ p = root
    \/ root = s_slash /\ IsAbs(p)
    \/ HasPrefix(p, root \o <<Sep>>)

\* The request path with the download prefix taken off its front.
Stripped(urlPath) == SubSeq(urlPath, Len(downloadPrefix) + 1, Len(urlPath))

\* The cleaned absolute join of the root and the path a request names.
Target(r) ==
    IF HasPrefix(r.path, downloadPrefix)
    THEN Clean(dir \o <<Sep>> \o Stripped(r.path))
    ELSE Clean(dir \o <<Sep>> \o r.path)

RejectedOutside(r) ==
    /\ r.pc = "done"
    /\ r.resp.status = 400
    /\ r.resp.body = <<ErrorItem("outside allowed path")>>

HasError(r, msg) == \E k \in DOMAIN r.resp.body : r.resp.body[k] = ErrorItem(msg)

ListItems(r) == SelectSeq(r.resp.body, LAMBDA it : it.kind = "li")

\* C1: on both routes, a request whose cleaned join with the root is neither
\* the root nor below it is rejected with status 400.
C1_OutsideIsRejected ==
    \A r \in Requests :
        (r.pc \notin {"idle", "route"} /\ ~Descendant(dir, Target(r)))
            => (r.pc = "done" /\ r.resp.status = 400)

\* C2: a request rejected by the confinement check has performed no
\* filesystem operation, on either route.
C2_NoFsBeforeReject ==
    \A r \in Requests : RejectedOutside(r) => r.ops = <<>>

C2_Witness ==
    \E r \in Requests :
        /\ RejectedOutside(r)
        /\ r.resp.handler = <<"download">>
        /\ Descendant(dir, Target(r)) = FALSE
        /\ r.ops = <<>>

\* The 400 and 500 responses handlerFunc writes itself, before handleDir or
\* handleFile is entered.
RouterError(r) ==
    /\ ~HasPrefix(r.path, downloadPrefix)
    /\ r.resp.body \in {<<ErrorItem("outside allowed path")>>,
                        <<ErrorItem("open failed")>>,
                        <<ErrorItem("stat failed")>>}

\* C3 as stated: every response, the error responses included, carries the
\* handler header with a value among dir, file, download.
C3_EveryResponseHasHandler ==
    \A r \in Done :
        /\ r.resp.handler # NoHeader
        /\ \A k \in DOMAIN r.resp.handler : r.resp.handler[k] \in {"dir", "file", "download"}

\* C3 amended: every response of the download route and every response of
\* handleDir and handleFile carries the handler header, once, with the value
\* of its handler; the error responses handlerFunc writes itself (confinement
\* rejection, open failure, stat failure) carry none.
C3_HandlerHeader ==
    \A r \in Done :
        IF RouterError(r) THEN r.resp.handler = NoHeader
        ELSE IF HasPrefix(r.path, downloadPrefix) THEN r.resp.handler = <<"download">>
        ELSE IF Node(r.realPath).isDir THEN r.resp.handler = <<"dir">>
        ELSE r.resp.handler = <<"file">>

C3_Witness ==
    \E r \in Done :
        /\ r.resp.status = 500
        /\ r.resp.handler = <<"dir">>
        /\ HasError(r, "match failed")

\* The regular, readable files below the root, each with its logical path.
Served ==
    {n \in FileSystem : ~n.isDir /\ n.readable /\ n.path # dir /\ Descendant(dir, n.path)}

Logical(n) ==
    IF dir = s_slash THEN n.path ELSE SubSeq(n.path, Len(dir) + 1, Len(n.path))

\* C4: a request for DownloadPrefix + q, q the logical path of a readable file
\* of the root, is served by the download handler with the sniffed MIME value
\* as Content-Type and, unless a write to the client fails, exactly the
\* file's bytes.
C4_DownloadVerbatim ==
    \A r \in Done : \A n \in Served :
        r.path = downloadPrefix \o Logical(n)
            => /\ r.resp.handler = <<"download">>
               /\ r.resp.status = 200
               /\ r.resp.contentType = <<Match(n.content).MIME.Value>>
               /\ \/ r.resp.body = <<[kind |-> "data", bytes |-> n.content]>>
                  \/ HasError(r, "write failed")

C4_Witness ==
    \E r \in Done : \E n \in Served :
        /\ r.path = downloadPrefix \o Logical(n)
        /\ Len(Split(Logical(n))) = 2
        /\ r.resp.contentType = <<"video/webm">>
        /\ r.resp.body = <<[kind |-> "data", bytes |-> n.content]>>

\* A listing written to the end.
Listed(r) ==
    /\ r.pc = "done"
    /\ r.resp.handler = <<"dir">>
    /\ r.resp.status = 200
    /\ \A k \in DOMAIN r.resp.body : r.resp.body[k].kind # "error"

\* C5: a listing has exactly one entry per child of the directory, linked if
\* and only if the child is a directory or a file of MIME category video.
C5_ListingExact ==
    \A r \in Requests :
        Listed(r) =>
            LET items == ListItems(r)
                kids == Children(r.realPath)
            IN  /\ Len(items) = Cardinality(kids)
                /\ \A n \in kids :
                      \E k \in DOMAIN items :
                          /\ items[k].name = n.name
                          /\ items[k].link =
                                (n.isDir \/ Match(n.content).MIME.Type = "video")

C5_Witness ==
    \E r \in Requests :
        /\ Listed(r)
        /\ \E n \in Children(r.realPath) : n.isDir
        /\ \E n \in Children(r.realPath) : ~n.isDir /\ Match(n.content).MIME.Type = "video"
        /\ \E k \in DOMAIN ListItems(r) : ~ListItems(r)[k].link

\* C6, for the listings of directories of the root: the request for a linked
\* entry resolves to the child the entry stood for and operates on it.
C6_ListingLinkRoundTrip ==
    \A r \in Done :
        (r.via.kind = "li" /\ Descendant(dir, r.via.from))
            => /\ r.realPath = r.via.object
               /\ r.ops # <<>>
               /\ r.ops[1].path = r.via.object

\* Failures of the environment that no handler can answer with a page: a
\* failed stat of the open file, a failed write to the client.
EnvFailure(r) == HasError(r, "stat failed") \/ HasError(r, "write failed")

\* C7: a request path without the download prefix that resolves to a readable
\* regular file of the root gets a player page from handleFile, whatever the
\* file's category: src is the download prefix followed by the cleaned
\* request path, type the sniffed MIME value, empty when unknown.
C7_PlayerPage ==
    \A r \in Done : \A n \in Served :
        (~HasPrefix(r.path, downloadPrefix) /\ Clean(dir \o <<Sep>> \o r.path) = n.path)
            => \/ EnvFailure(r)
               \/ /\ r.resp.handler = <<"file">>
                  /\ r.resp.status = 200
                  /\ r.resp.body =
                        <<[kind |-> "source",
                           src |-> downloadPrefix \o Clean(<<Sep>> \o r.path),
                           type |-> Match(n.content).MIME.Value]>>

C7_Witness ==
    \E r \in Done : \E n \in Served :
        /\ ~HasPrefix(r.path, downloadPrefix)
        /\ Clean(dir \o <<Sep>> \o r.path) = n.path
        /\ r.path # Clean(r.path)
        /\ Match(n.content) = Unknown
        /\ r.resp.handler = <<"file">>
        /\ r.resp.body = <<[kind |-> "source", src |-> downloadPrefix \o P1(s_x), type |-> ""]>>

\* C8: a request that is complete holds no open file, however the requests
\* interleave.
C8_HandlesClosed ==
    \A r \in Requests : r.pc \in {"idle", "done"} => r.open = {}

C8_Witness ==
    \E i \in DOMAIN reqs : \E j \in DOMAIN reqs :
        /\ i # j
        /\ reqs[i].pc = "done"
        /\ \E k \in DOMAIN reqs[i].ops : reqs[i].ops[k].op = "open"
        /\ HasError(reqs[i], "write failed")
        /\ reqs[i].open = {}
        /\ reqs[j].open # {}

\* A child of the listed directory cannot be classified.
Unclassifiable(path) == \E n \in Children(path) : ~n.isDir /\ ~MatchFile(n.path).ok

\* C9: nothing of a listing is written while children are still to be
\* classified, and a listing with a child that cannot be classified ends as
\* a 500 response holding the error alone.
C9_NoPartialListing ==
    \A r \in Requests :
        /\ r.pc \in {"readdir", "classify"} => r.resp.status = 0 /\ r.resp.body = <<>>
        /\ (r.pc = "done" /\ r.resp.handler = <<"dir">> /\ Unclassifiable(r.realPath))
              => /\ r.resp.status = 500
                 /\ Len(r.resp.body) = 1
                 /\ r.resp.body[1].kind = "error"

C9_Witness ==
    \E r \in Done :
        /\ r.resp.handler = <<"dir">>
        /\ Unclassifiable(r.realPath)
        /\ r.entries # <<>>
        /\ r.resp.body = <<ErrorItem("match failed")>>

\* C10, for the pages of files of the root: the request for the page's source
\* is served by the download handler, resolves to the file of the page and
\* has its MIME value as Content-Type.
C10_SourceRoundTrip ==
    \A r \in Done :
        (r.via.kind = "source" /\ r.via.from # dir /\ Descendant(dir, r.via.from))
            => /\ r.resp.handler = <<"download">>
               /\ r.realPath = r.via.object
               /\ r.resp.contentType = <<r.via.type>>
====
